---- MODULE Spec2Model ----
(***************************************************************************)
(* Lorenz water wheel engine (jvleta/wheely): validate_config,             *)
(* compute_derivatives, rk4_step and simulate of src/src/                  *)
(* wheely_simulation.cpp, with the pybind11 caller of                      *)
(* src/src/wheely_module.cpp and the emscripten caller of                  *)
(* src/src/wheely_wasm.cpp.                                                *)
(*                                                                         *)
(* The C++ `double` is modelled as a binary floating-point format of the   *)
(* same kind as IEEE-754 binary64 but narrower: Prec significant bits,     *)
(* a smallest quantum of 2^-FracBits (gradual underflow below              *)
(* 2^(Prec-FracBits)), ExpSpan binades above the subnormal range, round    *)
(* to nearest with ties to even, overflow to +-Infinity and invalid        *)
(* operations to NaN.  A finite value is the integer n that stands for     *)
(* n * 2^-FracBits.  The sign of zero is not represented (-0.0 and +0.0    *)
(* are the value 0; they compare equal in C++ and the only divisor that    *)
(* can be zero, cfg.inertia, is drawn as +0.0).                            *)
(***************************************************************************)
EXTENDS Integers, Sequences, FiniteSets

\* ------------------------------------------------------------------------
\* The floating-point format

Prec == 7

FracBits == 7

ExpSpan == 8

Quantum == 2 ^ FracBits

MaxFin == (2 ^ Prec - 1) * 2 ^ ExpSpan

PInf == MaxFin + 1

NInf == 0 - PInf

NaN == MaxFin + 2

IsNaN(x) == x = NaN

IsInf(x) == x = PInf \/ x = NInf

IsFin(x) == x # NaN /\ x # PInf /\ x # NInf

Abs(n) == IF n < 0 THEN 0 - n ELSE n

Sgn(n) == IF n < 0 THEN 0 - 1 ELSE IF n > 0 THEN 1 ELSE 0

\* The finite values of the format: every integer below 2^Prec (the
\* subnormal range and the first binade), and m * 2^j with m < 2^Prec.
RECURSIVE FitsPrec(_)
FitsPrec(a) ==
    IF a < 2 ^ Prec THEN TRUE
    ELSE IF a % 2 = 1 THEN FALSE
    ELSE FitsPrec(a \div 2)

Representable(x) == IsFin(x) /\ Abs(x) <= MaxFin /\ FitsPrec(Abs(x))

\* Spacing of the format at magnitude a/den (in quanta): the least power
\* of two 2^j with a/den < 2^(Prec+j); capped one binade past overflow.
RECURSIVE Spacing(_, _, _)
Spacing(a, den, j) ==
    IF j > ExpSpan \/ a < den * 2 ^ (Prec + j) THEN 2 ^ j
    ELSE Spacing(a, den, j + 1)

\* a/d rounded to the nearest integer, ties to even (a >= 0, d > 0).
RoundNearestEven(a, d) ==
    LET q == a \div d
        r == a % d
    IN  IF 2 * r > d \/ (2 * r = d /\ q % 2 = 1) THEN q + 1 ELSE q

\* The value num/den (in quanta, den > 0) rounded into the format.
Round(num, den) ==
    LET a == Abs(num)
        sp == Spacing(a, den, 0)
        m == RoundNearestEven(a, den * sp) * sp
    IN  IF m > MaxFin THEN (IF num < 0 THEN NInf ELSE PInf)
        ELSE Sgn(num) * m

\* static_cast<double>(n) of a small non-negative integer.
FromInt(n) == Round(n * Quantum, 1)

FNeg(a) == IF IsNaN(a) THEN NaN ELSE 0 - a

FAdd(a, b) ==
    IF IsNaN(a) \/ IsNaN(b) THEN NaN
    ELSE IF IsInf(a) /\ IsInf(b) THEN (IF a = b THEN a ELSE NaN)
    ELSE IF IsInf(a) THEN a
    ELSE IF IsInf(b) THEN b
    ELSE Round(a + b, 1)

FSub(a, b) == FAdd(a, FNeg(b))

\* A product beyond twice the largest finite value overflows whatever its
\* rounding; the others are rounded from the exact product.
FMul(a, b) ==
    IF IsNaN(a) \/ IsNaN(b) THEN NaN
    ELSE IF IsInf(a) \/ IsInf(b)
         THEN (IF a = 0 \/ b = 0 THEN NaN
               ELSE IF Sgn(a) * Sgn(b) < 0 THEN NInf ELSE PInf)
    ELSE IF b # 0 /\ Abs(a) > (2 * MaxFin * Quantum) \div Abs(b)
         THEN (IF Sgn(a) * Sgn(b) < 0 THEN NInf ELSE PInf)
    ELSE Round(a * b, Quantum)

FDiv(a, b) ==
    IF IsNaN(a) \/ IsNaN(b) THEN NaN
    ELSE IF IsInf(a) /\ IsInf(b) THEN NaN
    ELSE IF IsInf(a) THEN (IF Sgn(a) * Sgn(b) < 0 THEN NInf ELSE PInf)
    ELSE IF IsInf(b) THEN 0
    ELSE IF b = 0 THEN (IF a = 0 THEN NaN ELSE IF a < 0 THEN NInf ELSE PInf)
    ELSE Round(Sgn(b) * a * Quantum, Abs(b))

\* The comparisons of C++ on doubles: false whenever an operand is NaN.
FLt(a, b) == ~IsNaN(a) /\ ~IsNaN(b) /\ a < b

FLe(a, b) == ~IsNaN(a) /\ ~IsNaN(b) /\ a <= b

FGt(a, b) == FLt(b, a)

\* std::fmod: exact, with the sign of x.
Fmod(x, y) ==
    IF IsNaN(x) \/ IsNaN(y) \/ IsInf(x) \/ y = 0 THEN NaN
    ELSE IF IsInf(y) THEN x
    ELSE Sgn(x) * (Abs(x) % Abs(y))

\* std::sin, to the precision of the format: the argument is reduced
\* modulo 2*pi (pi taken as PiNum/PiDen) and Bhaskara's rational
\* approximation 16y(pi-y) / (5pi^2 - 4y(pi-y)) on [0, pi] is rounded
\* into the format.  Its absolute error (under 0.002) is below the
\* quantum.
PiNum == 355

PiDen == 113

SinHalfTurn(y, p) == Round(16 * y * (p - y) * Quantum, 5 * p * p - 4 * y * (p - y))

Sin(x) ==
    IF ~IsFin(x) THEN NaN
    ELSE LET turn == 2 * PiNum * Quantum
             r == (x * PiDen) % turn
             p == RoundNearestEven(PiNum * Quantum, PiDen)
             y == RoundNearestEven(r, PiDen)
         IN  IF y <= p THEN SinHalfTurn(y, p)
             ELSE IF y >= 2 * p THEN 0
             ELSE FNeg(SinHalfTurn(y - p, p))

\* ------------------------------------------------------------------------
\* wheely_simulation.cpp

\* constexpr double PI = 3.14159265358979323846;
PI == Round(PiNum * Quantum, PiDen)

\* constexpr double TWO_PI = 2.0 * PI;
TWO_PI == FMul(FromInt(2), PI)

\* The literal 0.1 of the inflow window, as the format holds it.
InflowHalfWidth == Round(Quantum, 10)

\* Element i (from 0) of a std::vector.
At(v, i) == v[i + 1]

\* A std::vector<double> given element by element, as a sequence.
Vector(f) == f \o <<>>

INVALID_N_CUPS == "n_cups must be positive"

INVALID_N_FRAMES == "n_frames must be at least 2"

INVALID_TIME == "t_end must be greater than t_start"

INVALID_STEPS == "steps_per_frame must be positive"

\* Mutant of validate_config: t_end < t_start instead of t_end <= t_start.
validate_config_lt(cfg) ==
    IF cfg.n_cups < 1 THEN INVALID_N_CUPS
    ELSE IF cfg.n_frames < 2 THEN INVALID_N_FRAMES
    ELSE IF FLt(cfg.t_end, cfg.t_start) THEN INVALID_TIME
    ELSE IF cfg.steps_per_frame < 1 THEN INVALID_STEPS
    ELSE ""

\* validate_config: the reason of the std::invalid_argument it throws,
\* or "" when it returns.
validate_config(cfg) ==
    IF cfg.n_cups < 1 THEN INVALID_N_CUPS
    ELSE IF cfg.n_frames < 2 THEN INVALID_N_FRAMES
    ELSE IF FLe(cfg.t_end, cfg.t_start) THEN INVALID_TIME
    ELSE IF cfg.steps_per_frame < 1 THEN INVALID_STEPS
    ELSE ""

cup_angle_step(cfg) == FDiv(TWO_PI, FromInt(cfg.n_cups))

\* const double angle = theta + cup_angle_step * static_cast<double>(i);
cup_angle(state, cfg, i) ==
    FAdd(At(state, 0), FMul(cup_angle_step(cfg), FromInt(i)))

\* The loop of lines 36-41: torque after the cups 0..n-1 were added.
RECURSIVE torque_sum(_, _, _)
torque_sum(state, cfg, n) ==
    IF n = 0 THEN 0
    ELSE FAdd(torque_sum(state, cfg, n - 1),
              FMul(FMul(FMul(At(state, 2 + (n - 1)), cfg.g), cfg.radius),
                   Sin(cup_angle(state, cfg, n - 1))))

\* double phi = std::fmod(angle, TWO_PI); if (phi < 0.0) phi += TWO_PI;
wrapped_phi(angle) ==
    LET phi == Fmod(angle, TWO_PI)
    IN  IF FLt(phi, 0) THEN FAdd(phi, TWO_PI) ELSE phi

\* Mutant of in_inflow_window: the two bounds belong to the window.
in_inflow_window_closed(phi) ==
    FLe(phi, InflowHalfWidth) \/ FLe(FSub(TWO_PI, InflowHalfWidth), phi)

\* if (phi < 0.1 || phi > TWO_PI - 0.1)
in_inflow_window(phi) ==
    FLt(phi, InflowHalfWidth) \/ FGt(phi, FSub(TWO_PI, InflowHalfWidth))

\* derivatives[2 + i] of lines 46-58.
mass_derivative(state, cfg, i) ==
    LET phi == wrapped_phi(cup_angle(state, cfg, i))
        mass == At(state, 2 + i)
    IN  IF in_inflow_window(phi)
        THEN FSub(cfg.inflow_rate, FMul(cfg.leak_rate, mass))
        ELSE FMul(FNeg(cfg.leak_rate), mass)

compute_derivatives(state, cfg) ==
    Vector([j \in 1..Len(state) |->
        IF j = 1 THEN At(state, 1)
        ELSE IF j = 2
        THEN FDiv(FAdd(FMul(FNeg(cfg.damping), At(state, 1)),
                       torque_sum(state, cfg, cfg.n_cups)),
                  cfg.inertia)
        ELSE IF j - 3 < cfg.n_cups THEN mass_derivative(state, cfg, j - 3)
        ELSE 0])

\* temp[i] = state[i] + h * k[i]
rk4_stage(state, h, k) ==
    Vector([j \in 1..Len(state) |-> FAdd(state[j], FMul(h, k[j]))])

\* Mutant of rk4_combine: the third slope is weighted 1 instead of 2.
rk4_combine_weights(state, sixth_dt, k1, k2, k3, k4) ==
    Vector([j \in 1..Len(state) |->
        FAdd(state[j],
             FMul(sixth_dt,
                  FAdd(FAdd(FAdd(k1[j], FMul(FromInt(2), k2[j])), k3[j]),
                       k4[j])))])

\* state[i] += sixth_dt * (k1[i] + 2.0 * k2[i] + 2.0 * k3[i] + k4[i]);
rk4_combine(state, sixth_dt, k1, k2, k3, k4) ==
    Vector([j \in 1..Len(state) |->
        FAdd(state[j],
             FMul(sixth_dt,
                  FAdd(FAdd(FAdd(k1[j], FMul(FromInt(2), k2[j])),
                            FMul(FromInt(2), k3[j])),
                       k4[j])))])

\* rk4_step: the state vector after one step of size dt.
rk4_step(state, dt, cfg) ==
    LET half_dt == FMul(dt, Round(Quantum, 2))
        sixth_dt == FDiv(dt, FromInt(6))
        k1 == compute_derivatives(state, cfg)
        k2 == compute_derivatives(rk4_stage(state, half_dt, k1), cfg)
        k3 == compute_derivatives(rk4_stage(state, half_dt, k2), cfg)
        k4 == compute_derivatives(rk4_stage(state, dt, k3), cfg)
    IN  rk4_combine(state, sixth_dt, k1, k2, k3, k4)

\* ------------------------------------------------------------------------
\* wheely_module.cpp: the pybind11 caller

MISSING_KEY == "Missing key: "

BIND_N_CUPS == "N_CUPS must be positive"

BIND_N_FRAMES == "N_FRAMES must be at least 2"

BIND_TIME == "T_END must be greater than T_START"

BIND_STEPS == "steps_per_frame must be positive"

\* The keys make_config_from_dict requires, in the order it reads them.
DictKeys ==
    <<"N_CUPS", "RADIUS", "G", "DAMPING", "LEAK_RATE", "INFLOW_RATE",
      "INERTIA", "OMEGA0", "T_START", "T_END", "N_FRAMES">>

\* Mutant of make_config_from_dict: the steps_per_frame test is missing.
make_config_from_dict_no_steps(absent, cfg) ==
    IF \E j \in 1..Len(DictKeys) : DictKeys[j] \in absent
    THEN LET first == CHOOSE j \in 1..Len(DictKeys) :
                          /\ DictKeys[j] \in absent
                          /\ \A h \in 1..(j - 1) : DictKeys[h] \notin absent
         IN  <<MISSING_KEY, DictKeys[first]>>
    ELSE IF cfg.n_cups < 1 THEN <<BIND_N_CUPS>>
    ELSE IF cfg.n_frames < 2 THEN <<BIND_N_FRAMES>>
    ELSE IF FLe(cfg.t_end, cfg.t_start) THEN <<BIND_TIME>>
    ELSE <<>>

\* make_config_from_dict: what it throws, <<>> when it returns cfg.
\* `absent` is the set of required keys the dict does not hold; the first
\* of them in reading order is the one reported.
make_config_from_dict(absent, cfg) ==
    IF \E j \in 1..Len(DictKeys) : DictKeys[j] \in absent
    THEN LET first == CHOOSE j \in 1..Len(DictKeys) :
                          /\ DictKeys[j] \in absent
                          /\ \A h \in 1..(j - 1) : DictKeys[h] \notin absent
         IN  <<MISSING_KEY, DictKeys[first]>>
    ELSE IF cfg.n_cups < 1 THEN <<BIND_N_CUPS>>
    ELSE IF cfg.n_frames < 2 THEN <<BIND_N_FRAMES>>
    ELSE IF FLe(cfg.t_end, cfg.t_start) THEN <<BIND_TIME>>
    ELSE IF cfg.steps_per_frame < 1 THEN <<BIND_STEPS>>
    ELSE <<>>

\* to_python: the flat masses copied into an array of shape
\* (n_cups, n_frames), row-major; n_frames is result.theta.size().
to_python(result, n_cups) ==
    LET n_frames == Len(result.theta)
    IN  [times |-> result.times,
         theta |-> result.theta,
         masses |-> [i \in 1..n_cups |->
                        [k \in 1..n_frames |->
                            result.masses[(i - 1) * n_frames + k]]]]

\* ------------------------------------------------------------------------
\* One call of the engine, from either caller

VARIABLES
    caller,        \* "python" (wheely_module.cpp) or "wasm" (wheely_wasm.cpp)
    absent,        \* python: the required keys missing from the dict
    cfg,           \* the SimulationConfig
    pc,            \* where the call is
    thrown,        \* the exception in flight: <<>> or <<who, reason...>>
    state,         \* simulate's state vector (<<>> before it is allocated)
    sub_dt,        \* simulate's sub_dt
    current_time,  \* simulate's current_time
    frame,         \* simulate's loop variable frame
    step,          \* simulate's loop variable step
    result,        \* simulate's SimulationResult (NoResult before line 106)
    returned,      \* the value the caller got back (NoResult if none)
    derivatives,   \* what a direct call of compute_derivatives returned
    \* history variables, not part of the program:
    substeps,      \* rk4_step calls made so far
    snapshots,     \* the state vector at each frame's recording
    writes         \* how often each flat index of result.masses was written

vars == <<caller, absent, cfg, pc, thrown, state, sub_dt, current_time,
          frame, step, result, returned, derivatives, substeps, snapshots,
          writes>>

NoResult == [times |-> <<>>, theta |-> <<>>, masses |-> <<>>]

Zeros(n) == [j \in 1..n |-> 0]

\* Mutant of initial_state: every component starts at omega0.
initial_state_filled(c) == [j \in 1..(c.n_cups + 2) |-> c.omega0]

\* std::vector<double> state(state_size, 0.0); state[1] = cfg.omega0;
initial_state(c) == [j \in 1..(c.n_cups + 2) |-> IF j = 2 THEN c.omega0 ELSE 0]

\* const double frame_dt = total_time / static_cast<double>(n_frames - 1);
frame_dt_of(c) == FDiv(FSub(c.t_end, c.t_start), FromInt(c.n_frames - 1))

\* Mutant of sub_dt_of: the frame interval is not divided.
sub_dt_of_frame(c) == frame_dt_of(c)

\* const double sub_dt = frame_dt / static_cast<double>(steps_per_frame);
sub_dt_of(c) == FDiv(frame_dt_of(c), FromInt(c.steps_per_frame))

\* Mutant of result_buffers: masses sized n_cups + n_frames.
result_buffers_sum(c) ==
    [times |-> Zeros(c.n_frames),
     theta |-> Zeros(c.n_frames),
     masses |-> Zeros(c.n_cups + c.n_frames)]

\* SimulationResult result; result.times.resize(cfg.n_frames);
\* result.theta.resize(cfg.n_frames);
\* result.masses.assign(cfg.n_cups * cfg.n_frames, 0.0);
result_buffers(c) ==
    [times |-> Zeros(c.n_frames),
     theta |-> Zeros(c.n_frames),
     masses |-> Zeros(c.n_cups * c.n_frames)]

\* wheely_module.cpp:86, make_config_from_dict(config, steps_per_frame)
MakeConfigFromDict ==
    /\ pc = "make_config"
    /\ LET e == make_config_from_dict(absent, cfg)
       IN  IF e # <<>>
           THEN pc' = "error" /\ thrown' = <<"binding">> \o e
           ELSE pc' = "simulate" /\ thrown' = thrown
    /\ UNCHANGED <<caller, absent, cfg, state, sub_dt, current_time, frame,
                   step, result, returned, derivatives, substeps, snapshots,
                   writes>>

\* Mutant of SimulateValidate: the state vector is allocated before the
\* configuration is validated.
SimulateValidateAfterAllocation ==
    /\ pc = "simulate"
    /\ state' = initial_state(cfg)
    /\ LET e == validate_config(cfg)
       IN  IF e # ""
           THEN pc' = "error" /\ thrown' = <<"engine", e>>
           ELSE pc' = "setup" /\ thrown' = thrown
    /\ UNCHANGED <<caller, absent, cfg, sub_dt, current_time, frame,
                   step, result, returned, derivatives, substeps, snapshots,
                   writes>>

\* simulate, line 95: validate_config(cfg);
SimulateValidate ==
    /\ pc = "simulate"
    /\ LET e == validate_config(cfg)
       IN  IF e # ""
           THEN pc' = "error" /\ thrown' = <<"engine", e>>
           ELSE pc' = "setup" /\ thrown' = thrown
    /\ UNCHANGED <<caller, absent, cfg, state, sub_dt, current_time, frame,
                   step, result, returned, derivatives, substeps, snapshots,
                   writes>>

\* simulate, lines 97-111: the state vector, the step sizes, the result
\* buffers and the time accumulator; then the loop is entered at frame 0.
SimulateSetup ==
    /\ pc = "setup"
    /\ state' = initial_state(cfg)
    /\ sub_dt' = sub_dt_of(cfg)
    /\ result' = result_buffers(cfg)
    /\ writes' = Zeros(Len(result_buffers(cfg).masses))
    /\ current_time' = cfg.t_start
    /\ frame' = 0
    /\ pc' = IF 0 < cfg.n_frames THEN "record" ELSE "return"
    /\ UNCHANGED <<caller, absent, cfg, thrown, step, returned, derivatives,
                   substeps, snapshots>>

\* Mutant of flat_index: frame-major, cup-minor.
flat_index_frame_major(cup, fr, c) == fr * c.n_cups + cup

\* The index of line 116: cup * cfg.n_frames + frame
flat_index(cup, fr, c) == cup * c.n_frames + fr

\* for (cup ...) result.masses[cup * cfg.n_frames + frame] = state[2 + cup];
\* the cups are written in ascending order, so the highest cup that maps
\* to an element is the one whose value stays.
record_masses(masses, st, c, fr) ==
    [j \in 1..Len(masses) |->
        LET cups == {cup \in 0..(c.n_cups - 1) : flat_index(cup, fr, c) + 1 = j}
        IN  IF cups = {} THEN masses[j]
            ELSE At(st, 2 + (CHOOSE cup \in cups : \A o \in cups : o <= cup))]

\* History: the writes the loop of lines 115-117 makes to each element.
record_writes(w, c, fr) ==
    [j \in 1..Len(w) |->
        w[j] + Cardinality({cup \in 0..(c.n_cups - 1) :
                               flat_index(cup, fr, c) + 1 = j})]

\* Mutant of last_frame: the loop is left one frame late.
last_frame_late(fr, c) == fr = c.n_frames

\* if (frame + 1 == cfg.n_frames) break;
last_frame(fr, c) == fr + 1 = c.n_frames

\* simulate, lines 113-121: frame `frame` is recorded; the last frame
\* leaves the loop.
RecordFrame ==
    /\ pc = "record"
    /\ result' = [times |-> [result.times EXCEPT ![frame + 1] = current_time],
                  theta |-> [result.theta EXCEPT ![frame + 1] = At(state, 0)],
                  masses |-> record_masses(result.masses, state, cfg, frame)]
    /\ writes' = record_writes(writes, cfg, frame)
    /\ snapshots' = Append(snapshots, state)
    /\ IF last_frame(frame, cfg)
       THEN pc' = "return" /\ step' = step
       ELSE IF 0 < cfg.steps_per_frame
       THEN pc' = "substep" /\ step' = 0
       ELSE pc' = "next_frame" /\ step' = 0
    /\ UNCHANGED <<caller, absent, cfg, thrown, state, sub_dt, current_time,
                   frame, returned, derivatives, substeps>>

\* simulate, lines 123-126: one pass of the inner loop.
SubStep ==
    /\ pc = "substep"
    /\ state' = rk4_step(state, sub_dt, cfg)
    /\ current_time' = FAdd(current_time, sub_dt)
    /\ step' = step + 1
    /\ substeps' = substeps + 1
    /\ pc' = IF step + 1 < cfg.steps_per_frame THEN "substep" ELSE "next_frame"
    /\ UNCHANGED <<caller, absent, cfg, thrown, sub_dt, frame, result,
                   returned, derivatives, snapshots, writes>>

\* simulate, line 112: ++frame and the loop test.
NextFrame ==
    /\ pc = "next_frame"
    /\ frame' = frame + 1
    /\ pc' = IF frame + 1 < cfg.n_frames THEN "record" ELSE "return"
    /\ UNCHANGED <<caller, absent, cfg, thrown, state, sub_dt, current_time,
                   step, result, returned, derivatives, substeps, snapshots,
                   writes>>

\* simulate, line 129, and the caller's use of the result:
\* wheely_wasm.cpp run_simulation hands it on as it is.
ReturnToWasm ==
    /\ pc = "return"
    /\ caller = "wasm"
    /\ returned' = result
    /\ pc' = "done"
    /\ UNCHANGED <<caller, absent, cfg, thrown, state, sub_dt, current_time,
                   frame, step, result, derivatives, substeps, snapshots,
                   writes>>

\* wheely_module.cpp simulate_impl: to_python(simulate(cfg), cfg.n_cups)
ReturnToPython ==
    /\ pc = "return"
    /\ caller = "python"
    /\ returned' = to_python(result, cfg.n_cups)
    /\ pc' = "done"
    /\ UNCHANGED <<caller, absent, cfg, thrown, state, sub_dt, current_time,
                   frame, step, result, derivatives, substeps, snapshots,
                   writes>>

\* A direct call of compute_derivatives(state, cfg), as the tests make it:
\* the state is passed by const reference.
CallComputeDerivatives ==
    /\ pc = "derivatives"
    /\ derivatives' = compute_derivatives(state, cfg)
    /\ pc' = "done"
    /\ UNCHANGED <<caller, absent, cfg, thrown, state, sub_dt, current_time,
                   frame, step, result, returned, substeps, snapshots,
                   writes>>

Next ==
    \/ MakeConfigFromDict
    \/ SimulateValidate
    \/ SimulateSetup
    \/ RecordFrame
    \/ SubStep
    \/ NextFrame
    \/ ReturnToWasm
    \/ ReturnToPython

\* simulate called directly (the wasm caller, the tests).
NextEngine ==
    \/ SimulateValidate
    \/ SimulateSetup
    \/ RecordFrame
    \/ SubStep
    \/ NextFrame
    \/ ReturnToWasm

NextDerivatives == CallComputeDerivatives

\* ------------------------------------------------------------------------
\* The calls explored

MaxCups == 2

MaxFrames == 3

MaxSteps == 3

\* The double nearest to the decimal num/den.
Lit(num, den) == Round(num * Quantum, den)

Idle(c, start_pc, who, keys) ==
    /\ caller = who
    /\ absent = keys
    /\ cfg = c
    /\ pc = start_pc
    /\ thrown = <<>>
    /\ state = <<>>
    /\ sub_dt = 0
    /\ current_time = 0
    /\ frame = 0
    /\ step = 0
    /\ result = NoResult
    /\ returned = NoResult
    /\ derivatives = <<>>
    /\ substeps = 0
    /\ snapshots = <<>>
    /\ writes = <<>>

\* Calls through either caller: every count from 0, every order of the two
\* times (with an infinite and a NaN end), around the tests' configuration.
Configs ==
    [n_cups : 0..MaxCups, radius : {Lit(1, 1)}, g : {Lit(981, 100)},
     damping : {Lit(1, 2)}, leak_rate : {Lit(1, 4)},
     inflow_rate : {Lit(0, 1), Lit(1, 1)}, inertia : {Lit(3, 2)},
     omega0 : {Lit(0, 1), Lit(1, 1)},
     t_start : {Lit(0, 1), Lit(1, 1)},
     t_end : {Lit(0, 1), Lit(1, 1), Lit(3, 1), PInf, NaN},
     n_frames : 0..MaxFrames, steps_per_frame : 0..MaxSteps]

AbsentKeys == {{}, {"T_END"}, {"N_FRAMES", "RADIUS"}}

Init ==
    \E c \in Configs :
        \/ Idle(c, "simulate", "wasm", {})
        \/ \E keys \in AbsentKeys : Idle(c, "make_config", "python", keys)

Spec == Init /\ [][Next]_vars

\* Direct calls of simulate over the physical parameters ...
PhysicsConfigs ==
    [n_cups : 1..MaxCups, radius : {Lit(1, 1)},
     g : {Lit(0, 1), Lit(981, 100)},
     damping : {Lit(0, 1), Lit(1, 2)},
     leak_rate : {Lit(0, 1), Lit(1, 4), Lit(200, 1)},
     inflow_rate : {Lit(0, 1), Lit(1, 1)},
     inertia : {Lit(0, 1), Lit(3, 2)},
     omega0 : {Lit(1, 1), Lit(-1, 100)},
     t_start : {Lit(0, 1)},
     t_end : {Lit(1, 1), Lit(3, 1), PInf},
     n_frames : 1..MaxFrames, steps_per_frame : 1..MaxSteps]

\* ... and over the time grid.
TimingConfigs ==
    [n_cups : {1}, radius : {Lit(1, 1)}, g : {Lit(981, 100)},
     damping : {Lit(0, 1)}, leak_rate : {Lit(0, 1)},
     inflow_rate : {Lit(0, 1)}, inertia : {Lit(1, 1)},
     omega0 : {Lit(1, 1), Lit(1, 10), Lit(3, 1)},
     t_start : {Lit(0 - 200, 1), Lit(0 - 1, 1), Lit(0, 1), Lit(1, 10),
                Lit(1, 1)},
     t_end : {Lit(1, 1), Lit(3, 1), Lit(7, 1), Lit(200, 1), PInf, NaN},
     n_frames : 1..MaxFrames, steps_per_frame : 1..MaxSteps]

InitEngine ==
    \E c \in PhysicsConfigs \cup TimingConfigs : Idle(c, "simulate", "wasm", {})

SpecEngine == InitEngine /\ [][NextEngine]_vars

\* Direct calls of compute_derivatives, as the tests make them: a state of
\* n_cups + 2 components whose angle is drawn around the two bounds of the
\* inflow window, around a full turn on either side of zero, and from the
\* non-finite values.
DerivativeConfigs ==
    [n_cups : 1..MaxCups, radius : {Lit(1, 1)}, g : {Lit(981, 100)},
     damping : {Lit(1, 2)}, leak_rate : {Lit(0, 1), Lit(1, 4)},
     inflow_rate : {Lit(0, 1), Lit(2, 1)}, inertia : {Lit(2, 1)},
     omega0 : {Lit(0, 1)}, t_start : {Lit(0, 1)}, t_end : {Lit(1, 1)},
     n_frames : {2}, steps_per_frame : {1}]

DerivativeAngles ==
    LET lo == InflowHalfWidth
        hi == FSub(TWO_PI, InflowHalfWidth)
        up(x) == FAdd(x, Spacing(Abs(x), 1, 0))
        down(x) == FSub(x, Spacing(Abs(x), 1, 0))
        pos == {0, 1, down(lo), lo, up(lo), PI, down(hi), hi, up(hi),
                down(TWO_PI), TWO_PI, up(TWO_PI), Lit(20, 1)}
    IN  pos \cup {FNeg(x) : x \in pos} \cup {PInf, NInf, NaN}

DerivativeStates(c) ==
    {Vector([j \in 1..(c.n_cups + 2) |->
                IF j = 1 THEN th ELSE IF j = 2 THEN Lit(1, 1) ELSE m[j - 2]]) :
        th \in DerivativeAngles,
        m \in [1..c.n_cups -> {Lit(0, 1), Lit(2, 1)}]}

InitDerivatives ==
    \E c \in DerivativeConfigs : \E st \in DerivativeStates(c) :
        /\ caller = "test"
        /\ absent = {}
        /\ cfg = c
        /\ pc = "derivatives"
        /\ thrown = <<>>
        /\ state = st
        /\ sub_dt = 0
        /\ current_time = 0
        /\ frame = 0
        /\ step = 0
        /\ result = NoResult
        /\ returned = NoResult
        /\ derivatives = <<>>
        /\ substeps = 0
        /\ snapshots = <<>>
        /\ writes = <<>>

SpecDerivatives == InitDerivatives /\ [][NextDerivatives]_vars

\* ------------------------------------------------------------------------
\* Properties

\* The four conditions of the validation contract, as the specification
\* lists them.
Rejected(c) ==
    \/ c.n_cups < 1
    \/ c.n_frames < 2
    \/ FLe(c.t_end, c.t_start)
    \/ c.steps_per_frame < 1

EngineReasons == {INVALID_N_CUPS, INVALID_N_FRAMES, INVALID_TIME, INVALID_STEPS}

Finished == pc = "return" \/ pc = "done"

\* C1: validate_config and simulate fail with Invalid Configuration exactly
\* when n_cups < 1, n_frames < 2, t_end <= t_start or steps_per_frame < 1;
\* any other configuration is accepted, whatever its other fields.
C1_ValidationRejectsExactlyTheFourConditions ==
    /\ (validate_config(cfg) # "") <=> Rejected(cfg)
    /\ (caller = "wasm" /\ pc # "simulate") => ((pc = "error") <=> Rejected(cfg))
    /\ (pc = "error" /\ thrown[1] = "engine")
           => (thrown[2] \in EngineReasons /\ Rejected(cfg))

\* simulate threw on a configuration whose only fault is t_end = t_start.
C1_Witness ==
    /\ caller = "wasm"
    /\ thrown = <<"engine", INVALID_TIME>>
    /\ cfg.t_end = cfg.t_start
    /\ cfg.n_cups >= 1 /\ cfg.n_frames >= 2 /\ cfg.steps_per_frame >= 1

\* C2: the result of simulate has times and theta of length n_frames and
\* masses of length n_cups * n_frames.
C2_ResultLengths ==
    Finished =>
        /\ Len(result.times) = cfg.n_frames
        /\ Len(result.theta) = cfg.n_frames
        /\ Len(result.masses) = cfg.n_cups * cfg.n_frames
        /\ (pc = "done" /\ caller = "wasm") => returned = result

C2_Witness ==
    /\ pc = "done"
    /\ cfg.n_cups = MaxCups
    /\ cfg.n_frames = MaxFrames
    /\ Len(result.masses) = MaxCups * MaxFrames

\* C5: masses is cup-major and frame-minor: element i * n_frames + k is
\* state[2 + i] as it was when frame k was recorded, theta[k] is state[0]
\* at that moment, and every element is written exactly once (elements of
\* frames not yet recorded: not at all).  The array handed to Python has
\* the same values at [i][k].
C5_CupMajorLayout ==
    /\ \A k \in 1..Len(snapshots) :
          /\ result.theta[k] = At(snapshots[k], 0)
          /\ \A i \in 0..(cfg.n_cups - 1) :
                result.masses[i * cfg.n_frames + (k - 1) + 1]
                    = At(snapshots[k], 2 + i)
    /\ \A j \in 1..Len(writes) :
          writes[j] = IF (j - 1) % cfg.n_frames < Len(snapshots) THEN 1 ELSE 0
    /\ Finished => (Len(snapshots) = cfg.n_frames /\ Len(writes) = Len(result.masses))
    /\ (pc = "done" /\ caller = "python") =>
          \A k \in 1..cfg.n_frames : \A i \in 0..(cfg.n_cups - 1) :
              returned.masses[i + 1][k] = At(snapshots[k], 2 + i)

\* A finished call with two cups whose masses differ from each other and
\* from frame to frame, so that the layouts can be told apart.
C5_Witness ==
    /\ pc = "done"
    /\ cfg.n_cups >= 2
    /\ cfg.n_frames >= 3
    /\ At(snapshots[2], 2) # At(snapshots[3], 2)
    /\ At(snapshots[3], 2) # At(snapshots[3], 3)
    /\ At(snapshots[2], 2) # At(snapshots[2], 3)

\* C6: an invalid configuration makes simulate throw before any work: no
\* state vector, no sub-step, no result buffer, nothing returned; and a
\* call ends either in that error or with all n_frames frames computed.
C6_NothingDoneAtError ==
    /\ pc = "error" =>
          /\ thrown # <<>>
          /\ state = <<>>
          /\ substeps = 0
          /\ result = NoResult
          /\ returned = NoResult
          /\ snapshots = <<>>
          /\ writes = <<>>
    /\ pc # "error" => thrown = <<>>
    /\ pc = "done" =>
          /\ Len(snapshots) = cfg.n_frames
          /\ substeps = (cfg.n_frames - 1) * cfg.steps_per_frame
          /\ returned # NoResult

C6_ErrorBeforeAnyWork ==
    /\ []C6_NothingDoneAtError
    /\ [][pc' = "error" => (pc = "make_config" \/ pc = "simulate")]_vars

C6_Witness ==
    /\ pc = "error"
    /\ thrown[1] = "engine"
    /\ Rejected(cfg)

\* C8: the check of make_config_from_dict and validate_config reject the
\* same configurations, so a configuration that passed the binding never
\* fails validation inside simulate.
C8_BindingAndEngineAgree ==
    /\ (make_config_from_dict({}, cfg) # <<>>) <=> (validate_config(cfg) # "")
    /\ caller = "python" => ~(pc = "error" /\ thrown[1] = "engine")
    /\ (caller = "python" /\ absent = {} /\ pc # "make_config")
           => ((pc = "error") <=> (validate_config(cfg) # ""))

\* A configuration came through the binding and through the validation
\* of simulate.
C8_Witness ==
    /\ caller = "python"
    /\ pc = "setup"

\* C9: frame k is recorded before the sub-steps that follow it, exactly
\* steps_per_frame sub-steps separate two recordings, none follows the
\* last one, the call makes (n_frames - 1) * steps_per_frame sub-steps in
\* all, and it terminates: every step brings the call nearer to its end.
C9_Counts ==
    /\ pc = "record" =>
          /\ Len(snapshots) = frame
          /\ substeps = frame * cfg.steps_per_frame
          /\ frame < cfg.n_frames
    /\ pc = "substep" =>
          /\ Len(snapshots) = frame + 1
          /\ frame + 1 < cfg.n_frames
          /\ step < cfg.steps_per_frame
          /\ substeps = frame * cfg.steps_per_frame + step
    /\ pc = "next_frame" =>
          /\ Len(snapshots) = frame + 1
          /\ substeps = (frame + 1) * cfg.steps_per_frame
    /\ Finished =>
          /\ Len(snapshots) = cfg.n_frames
          /\ substeps = (cfg.n_frames - 1) * cfg.steps_per_frame

\* The steps a call still has to make: N recordings, S sub-steps and one
\* loop test after each recording but the last, and the return.
LoopLeft(fr) ==
    LET left == (cfg.n_frames - fr)
                + (cfg.n_frames - 1 - fr) * (cfg.steps_per_frame + 1) + 1
    IN  IF left < 0 THEN 0 ELSE left

StepsLeft ==
    CASE pc = "make_config" -> 3 + LoopLeft(0)
      [] pc = "simulate" -> 2 + LoopLeft(0)
      [] pc = "setup" -> 1 + LoopLeft(0)
      [] pc = "record" -> LoopLeft(frame)
      [] pc = "substep" -> (cfg.steps_per_frame - step) + 1 + LoopLeft(frame + 1)
      [] pc = "next_frame" -> 1 + LoopLeft(frame + 1)
      [] pc = "return" -> 1
      [] OTHER -> 0

C9_SubStepsBetweenFrames ==
    /\ []C9_Counts
    /\ [](StepsLeft >= 0 /\ (StepsLeft = 0 <=> (pc = "done" \/ pc = "error")))
    /\ [][StepsLeft' < StepsLeft]_vars

C9_Witness ==
    /\ pc = "done"
    /\ cfg.n_frames = MaxFrames
    /\ cfg.steps_per_frame = MaxSteps
    /\ substeps = (MaxFrames - 1) * MaxSteps

\* ------------------------------------------------------------------------
\* The time grid (C3)

Max(a, b) == IF a < b THEN b ELSE a

\* The spacing of the format at |x|: one unit in the last place.
Ulp(x) == Spacing(Abs(x), 1, 0)

TimeScale(c) == Max(Abs(c.t_start), Abs(c.t_end))

\* Both times finite and small enough for twice the larger magnitude to stay
\* finite, and few enough sub-steps for their rounding errors to stay small
\* against the significand.
PlainTimes(c) ==
    /\ IsFin(c.t_start)
    /\ IsFin(c.t_end)
    /\ 2 * TimeScale(c) <= MaxFin
    /\ 8 * (c.n_frames - 1) * c.steps_per_frame <= 2 ^ Prec

\* (n_frames - 1) * (times[k] - (t_start + k*(t_end - t_start)/(n_frames-1))),
\* in exact arithmetic.
GridError(k) ==
    result.times[k + 1] * (cfg.n_frames - 1)
        - (cfg.t_start * (cfg.n_frames - 1) + k * (cfg.t_end - cfg.t_start))

\* The grid formula evaluated in the format.
GridFormula(k) ==
    FAdd(cfg.t_start,
         FDiv(FMul(FromInt(k), FSub(cfg.t_end, cfg.t_start)),
              FromInt(cfg.n_frames - 1)))

\* C3 as stated, on the configurations with plain finite times: when
\* simulate has returned, times[0] is t_start, times[n_frames-1] is t_end,
\* and every times[k] equals t_start + k*(t_end-t_start)/(n_frames-1)
\* (exactly, or as the format evaluates that formula).
C3_ExactGrid ==
    (Finished /\ ~Rejected(cfg) /\ PlainTimes(cfg)) =>
        /\ result.times[1] = cfg.t_start
        /\ result.times[cfg.n_frames] = cfg.t_end
        /\ \A k \in 0..(cfg.n_frames - 1) :
               GridError(k) = 0 \/ result.times[k + 1] = GridFormula(k)

\* C3, amended: on a valid configuration with plain finite times, times[0]
\* is t_start exactly and every recorded times[k] is finite and within
\* (2*k*steps_per_frame + n_frames) units in the last place of
\* max(|t_start|, |t_end|) of t_start + k*(t_end-t_start)/(n_frames-1).
C3_GridWithinRounding ==
    (~Rejected(cfg) /\ PlainTimes(cfg)) =>
        \A k \in 0..(Len(snapshots) - 1) :
            /\ IsFin(result.times[k + 1])
            /\ (k = 0 => result.times[1] = cfg.t_start)
            /\ Abs(GridError(k)) <=
                   (2 * k * cfg.steps_per_frame + cfg.n_frames)
                       * Ulp(TimeScale(cfg)) * (cfg.n_frames - 1)

\* C3 witness: a finished run on plain finite times whose last timestamp
\* has drifted off t_end.
C3_Witness ==
    /\ pc = "done"
    /\ ~Rejected(cfg)
    /\ PlainTimes(cfg)
    /\ substeps >= 2
    /\ result.times[1] = cfg.t_start
    /\ result.times[cfg.n_frames] # cfg.t_end

\* ------------------------------------------------------------------------
\* Zero flow (C4)

ZeroFlow(c) == c.inflow_rate = 0 /\ c.leak_rate = 0

MassesAreZero(st) == \A j \in 3..Len(st) : st[j] = 0

\* C4 as stated: on a valid configuration with inflow_rate = leak_rate = 0
\* every cup mass of the state is 0 after every sub-step and every entry of
\* the masses table is 0.
C4_MassesStayZero ==
    (~Rejected(cfg) /\ ZeroFlow(cfg)) =>
        /\ MassesAreZero(state)
        /\ \A j \in 1..Len(result.masses) : result.masses[j] = 0

\* C4, amended: the same, on the configurations whose time span
\* t_end - t_start is finite (so that sub_dt is).
C4_MassesStayZeroOnFiniteSpan ==
    (~Rejected(cfg) /\ ZeroFlow(cfg) /\ IsFin(FSub(cfg.t_end, cfg.t_start))) =>
        /\ MassesAreZero(state)
        /\ \A j \in 1..Len(result.masses) : result.masses[j] = 0

\* C4 witness: a finished run of two cups without flow over a finite span
\* in which the wheel has turned and the masses are still 0.
C4_Witness ==
    /\ pc = "done"
    /\ ~Rejected(cfg)
    /\ ZeroFlow(cfg)
    /\ IsFin(FSub(cfg.t_end, cfg.t_start))
    /\ cfg.n_cups = 2
    /\ substeps >= 2
    /\ IsFin(At(state, 0))
    /\ At(state, 0) # 0
    /\ MassesAreZero(state)
    /\ result.masses = Zeros(cfg.n_cups * cfg.n_frames)

\* ------------------------------------------------------------------------
\* Free rotation (C7)

\* The torque and damping terms vanish and the wheel is turning.
NoTorque(c) ==
    /\ c.damping = 0
    /\ (ZeroFlow(c) \/ c.g = 0)
    /\ c.omega0 # 0

MassesAreFinite(st) == \A j \in 3..Len(st) : IsFin(st[j])

\* Finite parameters, a nonzero inertia, plain finite times, and
\* 16 * |omega0| * max(1, |t_start|, |t_end|) no larger than the largest
\* finite value, so that neither 6 * omega nor the angle overflows.
PlainRotation(c) ==
    /\ PlainTimes(c)
    /\ \A x \in {c.radius, c.g, c.leak_rate, c.inflow_rate, c.inertia,
                c.omega0} : IsFin(x)
    /\ c.inertia # 0
    /\ Abs(c.omega0) <=
           (MaxFin * Quantum) \div (16 * Max(Quantum, TimeScale(c)))

\* theta[k] - omega0 * (times[k] - t_start), in exact arithmetic (in units
\* of the square of the quantum).
LinearError(k) ==
    result.theta[k + 1] * Quantum
        - cfg.omega0 * (result.times[k + 1] - cfg.t_start)

\* omega0 * (times[k] - t_start) evaluated in the format.
LinearFormula(k) ==
    FMul(cfg.omega0, FSub(result.times[k + 1], cfg.t_start))

\* j * (16 * eps * |omega0| * M + d * (4 * |omega0| + 1)), with eps the
\* relative spacing 2^(1-Prec), M the larger of |t_start| and |t_end| and d
\* the quantum (in units of the square of the quantum, rounded up).
LinearTolerance(j) ==
    j * ((16 * Abs(cfg.omega0) * TimeScale(cfg)) \div 2 ^ (Prec - 1) + 1
            + 4 * Abs(cfg.omega0) + Quantum)

\* C7 as stated, on the plain configurations and as long as the cup masses
\* are finite: with vanishing torque and damping and a nonzero omega0,
\* omega equals omega0 after every sub-step, theta[0] is 0 and theta[k]
\* equals omega0 * (times[k] - t_start) for every frame (exactly, or as the
\* format evaluates that formula).
C7_ExactLinearAngle ==
    (~Rejected(cfg) /\ NoTorque(cfg) /\ PlainRotation(cfg)) =>
        /\ (state # <<>> /\ MassesAreFinite(state) =>
               At(state, 1) = cfg.omega0)
        /\ \A k \in 0..(Len(snapshots) - 1) :
               MassesAreFinite(snapshots[k + 1]) =>
                   /\ (k = 0 => result.theta[1] = 0)
                   /\ (\/ LinearError(k) = 0
                       \/ result.theta[k + 1] = LinearFormula(k))

\* C7, amended: on the plain configurations with vanishing torque and
\* damping, as long as the cup masses are finite, omega equals omega0
\* exactly after every sub-step, theta[0] is 0 and every recorded theta[k]
\* is finite and within k * steps_per_frame times the per-step rounding
\* allowance of omega0 * (times[k] - t_start).
C7_LinearAngleWithinRounding ==
    (~Rejected(cfg) /\ NoTorque(cfg) /\ PlainRotation(cfg)) =>
        /\ (state # <<>> /\ MassesAreFinite(state) =>
               At(state, 1) = cfg.omega0)
        /\ \A k \in 0..(Len(snapshots) - 1) :
               MassesAreFinite(snapshots[k + 1]) =>
                   /\ At(snapshots[k + 1], 1) = cfg.omega0
                   /\ IsFin(result.theta[k + 1])
                   /\ (k = 0 => result.theta[1] = 0)
                   /\ Abs(LinearError(k)) <=
                          LinearTolerance(k * cfg.steps_per_frame)

\* C7 witness: a finished run without gravity in which the cups have
\* filled, omega is still omega0 and the last angle is off the formula by
\* a rounding error.
C7_Witness ==
    /\ pc = "done"
    /\ ~Rejected(cfg)
    /\ NoTorque(cfg)
    /\ PlainRotation(cfg)
    /\ cfg.g = 0
    /\ substeps >= 2
    /\ MassesAreFinite(state)
    /\ At(state, 2) # 0
    /\ At(state, 1) = cfg.omega0
    /\ LinearError(cfg.n_frames - 1) # 0
    /\ result.theta[cfg.n_frames] # LinearFormula(cfg.n_frames - 1)

\* ------------------------------------------------------------------------
\* The inflow window (C10)

\* What C10 gives for derivatives[2 + i], from the wrapped angle phi.
WindowDerivative(phi, i) ==
    IF FLt(phi, InflowHalfWidth) \/ FGt(phi, FSub(TWO_PI, InflowHalfWidth))
    THEN FSub(cfg.inflow_rate, FMul(cfg.leak_rate, At(state, 2 + i)))
    ELSE FMul(FNeg(cfg.leak_rate), At(state, 2 + i))

\* The input state is passed by const reference.
StateIsNotModified == [][pc = "derivatives" => state' = state]_vars

\* C10 as stated: after a call of compute_derivatives, for every cup whose
\* angle is finite the wrapped angle phi lies in [0, 2*pi) and the mass
\* derivative is the one of phi's side of the window; the returned vector
\* has the length of the state, which is not modified.
C10_WindowOnHalfOpenTurn ==
    /\ [](derivatives # <<>> =>
            /\ Len(derivatives) = Len(state)
            /\ \A i \in 0..(cfg.n_cups - 1) :
                   LET angle == cup_angle(state, cfg, i)
                       phi == wrapped_phi(angle)
                   IN  IsFin(angle) =>
                           /\ FLe(0, phi)
                           /\ FLt(phi, TWO_PI)
                           /\ At(derivatives, 2 + i) = WindowDerivative(phi, i))
    /\ StateIsNotModified

\* C10, amended: phi is the cup angle reduced modulo 2*pi and rounded into
\* the format, which lies in [0, 2*pi] and reaches 2*pi only for a negative
\* angle; the mass derivative is the one of phi's side of the window, and
\* the leak alone for an angle that is not finite; the returned vector has
\* the length of the state, which is not modified.
C10_WindowOnClosedTurn ==
    /\ [](derivatives # <<>> =>
            /\ Len(derivatives) = Len(state)
            /\ \A i \in 0..(cfg.n_cups - 1) :
                   LET angle == cup_angle(state, cfg, i)
                       phi == IF IsFin(angle) THEN Round(angle % TWO_PI, 1)
                              ELSE NaN
                   IN  /\ IsFin(angle) =>
                              /\ 0 <= phi
                              /\ phi <= TWO_PI
                              /\ (phi = TWO_PI => angle < 0)
                       /\ At(derivatives, 2 + i) = WindowDerivative(phi, i))
    /\ StateIsNotModified

\* C10 witness: a call on a state whose angle is the smallest negative
\* value; the wrapped angle is 2*pi itself and the cup is under the inflow.
C10_Witness ==
    /\ pc = "done"
    /\ derivatives # <<>>
    /\ At(state, 0) = 0 - 1
    /\ wrapped_phi(cup_angle(state, cfg, 0)) = TWO_PI
    /\ cfg.inflow_rate # 0
    /\ cfg.leak_rate # 0
    /\ At(state, 2) # 0
    /\ At(derivatives, 2) =
           FSub(cfg.inflow_rate, FMul(cfg.leak_rate, At(state, 2)))
    /\ At(derivatives, 2) # FMul(FNeg(cfg.leak_rate), At(state, 2))

====
